---- MODULE Spec2Model ----
(***************************************************************************)
(* ChessAgent (src/agents/chess_agent.py): one chess game per conversation *)
(* context, played turn by turn against an external engine process.       *)
(*                                                                         *)
(* State: the agent's `boards` dictionary (context id -> Board object),    *)
(* the Board objects themselves (a heap: `boards` and the local variable   *)
(* `board` of a running turn hold references, and board.push mutates the   *)
(* object in place), and the coroutines of process_messages that are in    *)
(* flight.  A coroutine runs without interruption between two awaits that  *)
(* suspend: the only ones are create_subprocess_exec (line 123) and        *)
(* process.communicate (line 137); _save_board_image awaits nothing.       *)
(*                                                                         *)
(* The chess rules are python-chess's and are not part of the repository.  *)
(* The model keeps the contract of every library call the agent makes      *)
(* (parse_san, push, san, legal_moves, is_game_over, Move.from_uci,        *)
(* Move.__bool__) and stands a small countdown game in for the rules: a    *)
(* position is the material left and the side to move, a legal move takes  *)
(* one or two units, and a position without material has no legal move.    *)
(***************************************************************************)
EXTENDS Integers, Sequences, FiniteSets, TLC

\* ---------------------------------------------------------------- bounds
NumContexts == 2
NumTurns == 2
StartMaterial == 3

Contexts == 1..NumContexts
Turns == 1..NumTurns
Objs == 1..(NumContexts + NumTurns)

\* context_id = None, and a context that `boards` has no entry for.
Absent == 0
\* A slot of the heap that holds no Board object.
NoObj == [mat |-> -1, stm |-> -1]

\* ----------------------------------------------------- the rules engine
\* chess.Move: from_square and to_square.  Move.null() is Move(0, 0).
Move(f, t) == [from_square |-> f, to_square |-> t]
NullMove == Move(0, 0)
\* Python's None where a move is expected (Optional[chess.Move]).
None == Move(-1, -1)
\* What a library call that raises yields in the model, as a move and as a
\* string.
Raised == Move(-2, -2)
Raises == "Raises"
\* The moves of the stand-in game.  TakeOne and TakeTwo are the moves that
\* can be legal; Pseudo moves a piece that stands on its from-square in every
\* position, against the rules; Empty names a from-square that never holds a
\* piece.
TakeOne == Move(1, 2)
TakeTwo == Move(1, 3)
Pseudo == Move(4, 5)
Empty == Move(6, 7)

Positions == [mat : 0..StartMaterial, stm : {0, 1}]

\* chess.Board(): the starting position.
InitialPosition == [mat |-> StartMaterial, stm |-> 0]

\* list(board.legal_moves): the legal moves in the generator's order.
legal_moves(p) ==
  IF p.mat = 0 THEN <<>>
  ELSE IF p.mat = 1 THEN <<TakeOne>>
  ELSE <<TakeOne, TakeTwo>>

IsLegal(p, m) == \E i \in 1..Len(legal_moves(p)) : legal_moves(p)[i] = m

\* board.piece_type_at(move.from_square) is not None.
HasPiece(p, m) == IsLegal(p, m) \/ m = Pseudo

\* board.push(move): plays the move without checking that it is legal.  A
\* null move only passes the turn; a move from an empty square moves nothing.
Push(p, m) ==
  LET k == IF m = TakeOne THEN 1 ELSE IF m = TakeTwo THEN 2 ELSE 0
      taken == IF HasPiece(p, m) /\ k <= p.mat THEN k ELSE 0
  IN  [mat |-> p.mat - taken, stm |-> 1 - p.stm]

\* board.is_game_over(): no legal move is left.
is_game_over(p) == legal_moves(p) = <<>>

\* Move.__bool__: bool(from_square or to_square or promotion or drop), so the
\* null move is falsy, like None.
Truthy(m) == m # None /\ (m.from_square # 0 \/ m.to_square # 0)

\* The notations: SAN as the user types it and board.san prints it, UCI as
\* the engine prints it.
SanTable == [x \in {"a3", "a4", "Ra8"} |->
               IF x = "a3" THEN TakeOne ELSE IF x = "a4" THEN TakeTwo ELSE Pseudo]
UciTable == [x \in {"a2a3", "a2a4", "a1a8", "e5e6"} |->
               IF x = "a2a3" THEN TakeOne
               ELSE IF x = "a2a4" THEN TakeTwo
               ELSE IF x = "a1a8" THEN Pseudo ELSE Empty]
NullSans == {"--", "Z0", "0000", "@@@@"}

\* board.parse_san(text): the move the text names when that move is legal in
\* the position, the null move for the null-move notations, and otherwise an
\* InvalidMoveError, IllegalMoveError or AmbiguousMoveError (ValueErrors).
parse_san(p, text) ==
  IF text \in DOMAIN SanTable /\ IsLegal(p, SanTable[text]) THEN SanTable[text]
  ELSE IF text \in NullSans THEN NullMove
  ELSE Raised

\* board.san(move): the move's SAN; "--" for the null move; an AssertionError
\* when no piece stands on the move's from-square.
san(p, m) ==
  IF m = NullMove THEN "--"
  ELSE IF HasPiece(p, m) THEN CHOOSE x \in DOMAIN SanTable : SanTable[x] = m
  ELSE Raises

\* chess.Move.from_uci(token): syntax only, no position is involved; "0000"
\* is the null move; anything that is not a move in UCI form (such as
\* Stockfish's "(none)") raises InvalidMoveError.
from_uci(tok) ==
  IF tok = "0000" THEN NullMove
  ELSE IF tok \in DOMAIN UciTable THEN UciTable[tok]
  ELSE Raised

\* str.strip() on the texts the model feeds in.
Strip(s) == IF s = " a4 " THEN "a4" ELSE s

\* ------------------------------------------------------------- messages
\* A2AMessage: its parts; MessagePart: kind and text.
TextPart(s) == [kind |-> "text", text |-> s]
FilePart == [kind |-> "file", text |-> ""]
Message(parts) == [parts |-> parts]

\* The texts a user sends.
UserTexts == {"a3", "a4", " a4 ", "Ra8", "--", "e9e9"}

\* The `messages` arguments the model calls process_messages with: no
\* message, a message without parts, with a file part only, with one text
\* part, with a file part before the text part, with two text parts, and an
\* earlier message before the latest.
MessageInputs ==
  {<<>>, <<Message(<<>>)>>, <<Message(<<FilePart>>)>>}
  \cup {<<Message(<<TextPart(x)>>)>> : x \in UserTexts}
  \cup {<<Message(<<FilePart, TextPart(x)>>)>> : x \in {"a3", "e9e9"}}
  \cup {<<Message(<<TextPart("a4"), TextPart("a3")>>)>>,
        <<Message(<<TextPart("a3")>>), Message(<<TextPart("a4")>>)>>,
        <<Message(<<TextPart("a3")>>), Message(<<FilePart>>)>>}

\* Lines 50-54: the stripped text of the first text part, "" when there is
\* none.
RECURSIVE FirstText(_)
FirstText(parts) ==
  IF parts = <<>> THEN ""
  ELSE IF Head(parts).kind = "text" THEN Strip(Head(parts).text)
  ELSE FirstText(Tail(parts))

\* Line 45: messages[-1] if messages else None.
HasMessage(msgs) == msgs # <<>>
LastMessage(msgs) == msgs[Len(msgs)]

\* ----------------------------------------------------- the engine bridge
\* The engine's standard output, as lines of whitespace-separated tokens.
EngineOutputs ==
  {<<<<"uciok">>, <<"readyok">>, <<"bestmove", tok>>>> :
      tok \in {"a2a3", "a2a4", "a1a8", "e5e6", "0000", "(none)"}}
  \cup {<<>>,
        <<<<"uciok">>, <<"readyok">>>>,
        <<<<"uciok">>, <<"bestmove">>>>,
        <<<<"info", "bestmove", "a2a3">>, <<"bestmove", "a2a4", "ponder", "a2a3">>>>,
        <<<<"bestmove", "a2a4">>, <<"bestmove", "a2a3">>>>}

\* Lines 140-145: the move of the first line that starts with "bestmove";
\* None when no line does.  line.split()[1] raises IndexError on a line that
\* holds the marker alone, and Move.from_uci raises on a token that is no
\* move: Raised.
RECURSIVE ScanOutput(_)
ScanOutput(lines) ==
  IF lines = <<>> THEN None
  ELSE IF Head(lines) # <<>> /\ Head(lines)[1] = "bestmove"
       THEN IF Len(Head(lines)) < 2 THEN Raised ELSE from_uci(Head(lines)[2])
       ELSE ScanOutput(Tail(lines))

\* FallbackMove taking the last legal move instead of the first.
FallbackMoveLast(p) ==
  IF legal_moves(p) # <<>> THEN legal_moves(p)[Len(legal_moves(p))] ELSE None

\* Lines 148-149 and 152-153: legal_moves[0] if legal_moves else None.
FallbackMove(p) ==
  IF legal_moves(p) # <<>> THEN legal_moves(p)[1] ELSE None

\* Lines 137-153, once communicate has returned `lines`: what
\* _get_stockfish_move returns for the position the board holds then.
BridgeResult(p, lines) ==
  IF ScanOutput(lines) = Raised THEN FallbackMove(p) ELSE ScanOutput(lines)

\* Lines 130-135: the commands, built from the position the board holds
\* when create_subprocess_exec has returned.
Command(name, p) == [cmd |-> name, fen |-> p]
Commands(p) ==
  <<Command("uci", NoObj), Command("isready", NoObj),
    Command("position fen", p), Command("go movetime 1000", NoObj)>>

\* ---------------------------------------------------------------- state
VARIABLES
  boards,   \* self.boards: context id -> reference to its Board, or Absent
  heap,     \* the Board objects: reference -> the position the board holds
  turns,    \* the calls of process_messages in flight: where each is
            \* suspended, and its locals
  out,      \* what the step just taken gave its caller: the TaskResult
            \* returned or the exception raised, with what the call saw
  seqPos    \* history variable: per context, the position a strictly
            \* sequential run of its turns so far gives (Unknown once two
            \* operations on the context have overlapped)

vars == <<boards, heap, turns, out, seqPos>>

Unknown == [mat |-> -2, stm |-> -2]
NoResult == [state |-> "", move |-> "", url |-> ""]
NoError == [type |-> "", message |-> "", text |-> "", at |-> ""]
Sentinel == "No legal moves available"

\* A call that is not running.  pc: idle, spawning (suspended in
\* create_subprocess_exec), communicating (suspended in communicate).
\* board, move: the locals `board` and `move`.  proc: the engine process.
\* fen: the position written to the engine.  sent: the commands handed to
\* communicate, which writes them to the process and closes its input.  pre,
\* handed: the position the user's move was parsed in and the position it
\* gave.
IdleTurn ==
  [pc |-> "idle", ctx |-> Absent, board |-> Absent, pre |-> NoObj,
   move |-> None, proc |-> "none", fen |-> NoObj, sent |-> <<>>,
   handed |-> NoObj]

\* No call returned or raised in the step just taken.  kind: accepted (the
\* user's move was stored and the call went on), returned, raised.  input,
\* text, pre: the shape of `messages`, move_text and the position it was
\* parsed in.  board, move, handed: the turn's board, the user's move and the
\* position it gave.  atRet, ai, src: the position when _get_stockfish_move
\* returned, the move it returned and the branch that returned it.  final:
\* the position of the turn's board when the call returned.  saved: whether
\* _save_board_image wrote the image ("yes", "no"; "" when it never ran).
\* proc: the engine process of the call when the call ended (none, exited,
\* running, hung).
NoOutcome ==
  [kind |-> "none", ctx |-> Absent, input |-> "", text |-> "", pre |-> NoObj,
   board |-> Absent, move |-> None, handed |-> NoObj, atRet |-> NoObj,
   ai |-> None, src |-> "", final |-> NoObj, result |-> NoResult,
   err |-> NoError, saved |-> "", proc |-> "none"]

InFlight(t) == turns[t].pc \in {"spawning", "communicating"}
InFlightOn(c) == \E t \in Turns : InFlight(t) /\ turns[t].ctx = c

\* self.boards.get(context_id, chess.Board()), line 42: the position of the
\* board the call works on.
StoredPosition(c) ==
  IF boards[c] # Absent THEN heap[boards[c]] ELSE InitialPosition

\* Objects no reference leads to are dropped, and a new Board takes the
\* lowest free slot.
Collect(h, b, ts) ==
  [o \in Objs |->
     IF (\E c \in Contexts : b[c] = o)
        \/ (\E t \in Turns : ts[t].pc # "idle" /\ ts[t].board = o)
     THEN h[o] ELSE NoObj]
NewObj ==
  CHOOSE o \in Objs : heap[o] = NoObj /\ \A o2 \in Objs : o2 < o => heap[o2] # NoObj

Init ==
  /\ boards = [c \in Contexts |-> Absent]
  /\ heap = [o \in Objs |-> NoObj]
  /\ turns = [t \in Turns |-> IdleTurn]
  /\ out = NoOutcome
  /\ seqPos = [c \in Contexts |-> InitialPosition]

\* ------------------------------------------------------------- operations
\* Line 38: context_id or str(uuid4()).  A fresh uuid names a context that
\* has no board and no call in flight.
ResolveContext(cin, c) ==
  IF cin # Absent THEN c = cin
  ELSE boards[c] = Absent /\ ~InFlightOn(c)

\* GetBoard handing out a copy of the stored board.
GetBoardCopy(c) == NewObj

\* Line 42: self.boards.get(context_id, chess.Board()): the stored Board
\* object itself, or a new one.
GetBoard(c) == IF boards[c] # Absent THEN boards[c] ELSE NewObj

\* Lines 45-54: what `messages` holds for the turn.
InputShape(msgs) ==
  IF ~HasMessage(msgs) THEN "no-message"
  ELSE IF \E i \in 1..Len(LastMessage(msgs).parts) :
            LastMessage(msgs).parts[i].kind = "text"
       THEN "text" ELSE "no-text-part"

\* ApplyUserMove on a Board that all contexts share.
ApplyUserMoveAll(h, o, m) ==
  [x \in Objs |-> IF h[x] = NoObj THEN NoObj ELSE Push(h[x], m)]

\* Line 59: board.push(move), on the object `board` refers to.
ApplyUserMove(h, o, m) == [h EXCEPT ![o] = Push(@, m)]

\* StoreBoard rebuilding the dictionary with the one entry.
StoreBoardOnly(b, c, o) == [x \in Contexts |-> IF x = c THEN o ELSE Absent]

\* Line 64: self.boards[context_id] = board.
StoreBoard(b, c, o) == [b EXCEPT ![c] = o]

\* ApplyEngineMove pushing on a copy of the board: the stored object is
\* left as it was.
ApplyEngineMoveOnCopy(h, o, m) == h

\* Line 70: board.push(ai_move), on the same object.
ApplyEngineMove(h, o, m) == [h EXCEPT ![o] = Push(@, m)]

\* TaskState with the test of line 107 inverted.
TaskStateInverted(p) == IF is_game_over(p) THEN "input-required" ELSE "completed"

\* Line 107.
TaskState(p) == IF ~is_game_over(p) THEN "input-required" ELSE "completed"

\* save_board_image raising what svg2png or the file write raised.
SaveBoardImageRaises(ok) == IF ok THEN "file://" ELSE Raises

\* Lines 155-175: _save_board_image returns the file URL, and "" when
\* cairosvg.svg2png, open or write raised.
save_board_image(ok) == IF ok THEN "file://" ELSE ""

\* Lines 47 and 61: the two ValueErrors of the validation step.
NoMessageError ==
  [type |-> "ValueError", message |-> "No message provided", text |-> "",
   at |-> "Validating"]
InvalidMoveError(text) ==
  [type |-> "ValueError", message |-> "Invalid move", text |-> text,
   at |-> "Validating"]

\* Lines 37-67 and 123: process_messages from its start to its first
\* suspension, in create_subprocess_exec, or to the ValueError it raises.
Process(t, cin, msgs) ==
  /\ turns[t].pc = "idle"
  /\ \E c \in Contexts :
       /\ ResolveContext(cin, c)
       /\ LET p == StoredPosition(c)
              text == FirstText(LastMessage(msgs).parts)
              move == parse_san(p, text)
              o == GetBoard(c)
              h0 == [heap EXCEPT ![o] = p]
              seen == [NoOutcome EXCEPT !.ctx = c, !.input = InputShape(msgs),
                                        !.pre = p]
          IN  IF ~HasMessage(msgs) THEN
                /\ out' = [seen EXCEPT !.kind = "raised", !.err = NoMessageError]
                /\ UNCHANGED <<boards, heap, turns, seqPos>>
              ELSE IF move = Raised THEN
                /\ out' = [seen EXCEPT !.kind = "raised", !.text = text,
                                       !.err = InvalidMoveError(text)]
                /\ UNCHANGED <<boards, heap, turns, seqPos>>
              ELSE
                /\ heap' = ApplyUserMove(h0, o, move)
                /\ boards' = StoreBoard(boards, c, o)
                /\ turns' = [turns EXCEPT ![t] =
                     [IdleTurn EXCEPT !.pc = "spawning", !.ctx = c,
                                      !.board = o, !.pre = p,
                                      !.move = move,
                                      !.handed = Push(p, move)]]
                /\ out' = [seen EXCEPT !.kind = "accepted", !.text = text,
                                       !.board = o, !.move = move,
                                       !.handed = Push(p, move)]
                /\ seqPos' = [seqPos EXCEPT ![c] =
                     IF InFlightOn(c) \/ @ = Unknown THEN Unknown
                     ELSE Push(@, move)]

\* Lines 68-118: process_messages after _get_stockfish_move has returned
\* `ai` (no await suspends in between).  board.san raises AssertionError on
\* a move whose from-square is empty; nothing catches it, and nothing
\* around line 76 would catch what _save_board_image raised.  proc: the
\* engine process when _get_stockfish_move returned.
Finish(t, ai, src, proc) ==
  LET o == turns[t].board
      c == turns[t].ctx
      p == heap[o]
      ts == [turns EXCEPT ![t] = IdleTurn]
      seen == [NoOutcome EXCEPT !.ctx = c, !.board = o,
                                !.pre = turns[t].pre,
                                !.move = turns[t].move,
                                !.handed = turns[t].handed, !.atRet = p,
                                !.ai = ai, !.src = src, !.proc = proc]
  IN  /\ turns' = ts
      /\ UNCHANGED boards
      /\ IF Truthy(ai) /\ san(p, ai) = Raises THEN
           /\ out' = [seen EXCEPT !.kind = "raised",
                !.err = [type |-> "AssertionError",
                         message |-> "san() and lan() expect move to be legal or null",
                         text |-> "", at |-> "AwaitingEngine"]]
           /\ heap' = Collect(heap, boards, ts)
           /\ UNCHANGED seqPos
         ELSE
           LET h2 == IF Truthy(ai) THEN ApplyEngineMove(heap, o, ai) ELSE heap
               ai_move_san == IF Truthy(ai) THEN san(p, ai) ELSE Sentinel
           IN  /\ heap' = Collect(h2, boards, ts)
               /\ \E ok \in BOOLEAN :
                    LET board_url == save_board_image(ok)
                        rendered == [seen EXCEPT !.final = h2[o],
                                       !.saved = IF ok THEN "yes" ELSE "no"]
                    IN  out' = IF board_url = Raises
                               THEN [rendered EXCEPT !.kind = "raised",
                                      !.err = [type |-> "Exception",
                                               message |-> "", text |-> "",
                                               at |-> "Rendering"]]
                               ELSE [rendered EXCEPT !.kind = "returned",
                                      !.result = [state |-> TaskState(h2[o]),
                                                  move |-> ai_move_san,
                                                  url |-> board_url]]
               /\ seqPos' = [seqPos EXCEPT ![c] =
                    IF @ = Unknown \/ ~Truthy(ai) THEN @ ELSE Push(@, ai)]

\* Lines 123-128 raise (FileNotFoundError, lines 146-149; any other
\* Exception, lines 150-153): the fallback move, then the rest of the turn.
SpawnFails(t) ==
  /\ turns[t].pc = "spawning"
  /\ \E exc \in {"FileNotFoundError", "spawn Exception"} :
       Finish(t, FallbackMove(heap[turns[t].board]), exc, "none")

\* Lines 123-137: the process is started, the four commands are built with
\* the FEN of the board as it is now, and the call suspends in communicate.
\* A process that never exits and never closes its output is "hung".
SpawnReturns(t) ==
  /\ turns[t].pc = "spawning"
  /\ \E proc \in {"running", "hung"} :
       turns' = [turns EXCEPT ![t] =
         [@ EXCEPT !.pc = "communicating", !.proc = proc,
                   !.fen = heap[turns[t].board],
                   !.sent = Commands(heap[turns[t].board])]]
  /\ out' = NoOutcome
  /\ UNCHANGED <<boards, heap, seqPos>>

\* Lines 137-145: the process exits, communicate returns its output.
EngineExits(t) ==
  /\ turns[t].pc = "communicating"
  /\ turns[t].proc = "running"
  /\ \E lines \in EngineOutputs :
       Finish(t, BridgeResult(heap[turns[t].board], lines),
              IF ScanOutput(lines) = Raised THEN "parse Exception" ELSE "output",
              "exited")

\* Line 138 raises (the process has exited and its output is not UTF-8):
\* lines 150-153.
CommunicateFails(t) ==
  /\ turns[t].pc = "communicating"
  /\ turns[t].proc = "running"
  /\ Finish(t, FallbackMove(heap[turns[t].board]), "communicate Exception",
            "exited")

\* The caller cancels the task while it is suspended: CancelledError is no
\* Exception, so neither except clause catches it, and no code kills the
\* process the call has started.
Cancel(t) ==
  /\ InFlight(t)
  /\ turns' = [turns EXCEPT ![t] = IdleTurn]
  /\ out' = [NoOutcome EXCEPT !.kind = "raised", !.ctx = turns[t].ctx,
               !.board = turns[t].board, !.pre = turns[t].pre,
               !.move = turns[t].move,
               !.handed = turns[t].handed, !.proc = turns[t].proc,
               !.err = [type |-> "CancelledError", message |-> "",
                        text |-> "", at |-> "AwaitingEngine"]]
  /\ heap' = Collect(heap, boards, turns')
  /\ UNCHANGED <<boards, seqPos>>

\* Lines 177-179: cleanup.
Cleanup ==
  /\ boards' = [c \in Contexts |-> Absent]
  /\ heap' = Collect(heap, boards', turns)
  /\ out' = NoOutcome
  /\ seqPos' = [c \in Contexts |->
       IF InFlightOn(c) THEN Unknown ELSE InitialPosition]
  /\ UNCHANGED turns

\* The steps of the calls in the slots T.
NextOver(T) ==
  \/ \E t \in T, cin \in Contexts \cup {Absent}, msgs \in MessageInputs :
       Process(t, cin, msgs)
  \/ \E t \in T : SpawnFails(t)
  \/ \E t \in T : SpawnReturns(t)
  \/ \E t \in T : EngineExits(t)
  \/ \E t \in T : CommunicateFails(t)
  \/ \E t \in T : Cancel(t)
  \/ Cleanup

\* Any number of calls up to NumTurns in flight at once.
Next == NextOver(Turns)
Spec == Init /\ [][Next]_vars

\* The caller awaits each call of process_messages before it makes the
\* next: one call in flight at a time (cleanup may still run while the call
\* is suspended, and the call may be cancelled).
SeqNext == NextOver({1})
SeqSpec == Init /\ [][SeqNext]_vars

\* The event loop resumes a coroutine whose await has completed, and a
\* process that runs exits.  Nothing makes a hung process exit.
Fairness ==
  /\ \A t \in Turns : WF_vars(SpawnReturns(t) \/ SpawnFails(t))
  /\ \A t \in Turns : WF_vars(EngineExits(t) \/ CommunicateFails(t))
FairSeqSpec == SeqSpec /\ Fairness

\* Calls that overlap: up to NumTurns calls of process_messages in flight
\* at once, on the same context or on different ones, each suspended at an
\* await while another runs; cleanup runs when no call is in flight.
InterleavedInputs ==
  {<<>>} \cup {<<Message(<<TextPart(x)>>)>> : x \in {"a3", "e9e9"}}
NoCallInFlight == \A t \in Turns : ~InFlight(t)
ConcNext ==
  \/ \E t \in Turns, cin \in Contexts \cup {Absent}, msgs \in InterleavedInputs :
       Process(t, cin, msgs)
  \/ \E t \in Turns : SpawnFails(t)
  \/ \E t \in Turns : SpawnReturns(t)
  \/ \E t \in Turns : EngineExits(t)
  \/ \E t \in Turns : CommunicateFails(t)
  \/ \E t \in Turns : Cancel(t)
  \/ (NoCallInFlight /\ Cleanup)
ConcSpec == Init /\ [][ConcNext]_vars

\* ------------------------------------------------------------ properties
\* The error kinds of the specification: the ValueError of line 47 is
\* InvalidInput, the ValueError of line 61 is IllegalMove.
ErrorKind(e) ==
  IF e.type = "ValueError" /\ e.message = "No message provided" THEN "InvalidInput"
  ELSE IF e.type = "ValueError" /\ e.message = "Invalid move" THEN "IllegalMove"
  ELSE e.type

\* The text names a move of the position's legal-move set.
NamesLegalMove(p, text) ==
  \E i \in 1..Len(legal_moves(p)) :
    text \in DOMAIN SanTable /\ SanTable[text] = legal_moves(p)[i]

\* The positions that legal moves lead to from the initial position.
RECURSIVE LegalClosure(_)
LegalClosure(S) ==
  LET T == S \cup UNION {{Push(p, legal_moves(p)[i]) :
                             i \in 1..Len(legal_moves(p))} : p \in S}
  IN  IF T = S THEN S ELSE LegalClosure(T)
LegalReachable == LegalClosure({InitialPosition})

\* The step just taken ended a turn after its engine consult.
AfterConsult == out.src # ""

\* C1: a call whose move text does not name a legal move of the stored
\* position raises the IllegalMove error with that text and leaves `boards`
\* and every board as they were.
C1_IllegalTextRejected ==
  [][(out'.input = "text" /\ ~NamesLegalMove(out'.pre, out'.text))
       => /\ out'.kind = "raised"
          /\ ErrorKind(out'.err) = "IllegalMove"
          /\ out'.err.text = out'.text
          /\ boards' = boards /\ heap' = heap]_vars

\* C2: as long as the operations on a context have not overlapped, the
\* stored position of the context is the position its turns give when run
\* one after another: each user move applied, then the engine or fallback
\* move of the same turn when the turn played one; the next turn parses the
\* user's move in that position.
C2_SequentialConsistency ==
  /\ \A c \in Contexts :
       seqPos[c] # Unknown => StoredPosition(c) = seqPos[c]
  /\ (out.kind = "accepted" /\ seqPos[out.ctx] # Unknown)
       => out.handed = seqPos[out.ctx]

\* A second turn on a context has parsed its move in the position the first
\* turn left: the first user move and the engine's reply applied.
C2_Witness ==
  /\ out.kind = "accepted"
  /\ out.pre = Push(Push(InitialPosition, TakeOne), TakeOne)
  /\ seqPos[out.ctx] = out.handed
  /\ StoredPosition(out.ctx) = out.handed

C4_NoMoveOnlyWhenTerminal ==
  AfterConsult =>
    /\ ~Truthy(out.ai) => legal_moves(out.atRet) = <<>>
    /\ (out.kind = "returned" /\ out.result.move = Sentinel)
         => legal_moves(out.atRet) = <<>>

\* C5: a turn that has stored a legal user move and waits for the engine
\* eventually stops waiting.
C5_BoundedEngineWait ==
  \A t \in Turns :
    (InFlight(t) /\ IsLegal(turns[t].pre, turns[t].move))
      ~> (turns[t].pc = "idle")

\* C6: every stored position is reachable from the initial position by
\* legal moves, and an engine move is applied only when it is legal in the
\* position it is applied to.
C6_StoredPositionsLegal ==
  /\ \A c \in Contexts :
       boards[c] # Absent => heap[boards[c]] \in LegalReachable
  /\ (out.kind = "returned" /\ Truthy(out.ai)) => IsLegal(out.atRet, out.ai)

\* C7: once the user's move is accepted the call returns a result: no
\* failure on the engine's side reaches the caller as an error.
C7_ErrorsFromValidationOnly ==
  out.kind = "raised"
    => out.err.at = "Validating" \/ out.err.type = "CancelledError"

\* C8: a call without a message, or whose latest message has no text part,
\* raises the InvalidInput error and leaves `boards` and every board as
\* they were.
C8_InvalidInputKind ==
  [][out'.input \in {"no-message", "no-text-part"}
       => /\ out'.kind = "raised"
          /\ ErrorKind(out'.err) = "InvalidInput"
          /\ boards' = boards /\ heap' = heap]_vars

\* C9: when the user's legal move leaves a position without legal moves,
\* the turn returns state completed and the sentinel, applies no engine
\* move, and the stored position is the position after the user's move.
C9_TerminalAfterUserMove ==
  (AfterConsult /\ IsLegal(out.pre, out.move) /\ legal_moves(out.handed) = <<>>)
    => /\ out.kind = "returned"
       /\ out.result.state = "completed"
       /\ out.result.move = Sentinel
       /\ out.final = out.handed
       /\ boards[out.ctx] = out.board => heap[out.board] = out.handed

\* C10: a returned result has state completed exactly when the position of
\* the turn's board at the end of the turn is game over, and input-required
\* otherwise.
C10_StateIsGameOver ==
  out.kind = "returned"
    => /\ out.result.state = (IF is_game_over(out.final) THEN "completed"
                              ELSE "input-required")
       /\ out.final = (IF Truthy(out.ai) THEN Push(out.atRet, out.ai)
                       ELSE out.atRet)
       /\ boards[out.ctx] = out.board => heap[out.board] = out.final

\* The engine's move ended the game and the result says completed; in
\* another turn the game went on.
C10_Witness ==
  /\ out.kind = "returned"
  /\ Truthy(out.ai)
  /\ is_game_over(out.final)
  /\ ~is_game_over(out.atRet)
  /\ out.result.state = "completed"
  /\ boards[out.ctx] = out.board

\* C11: when cairosvg.svg2png or the file write fails, the turn still
\* returns a result, its board artifact has the empty image reference, and
\* the state, the move artifact and the stored position are what the engine's
\* answer alone determines, as when the image is written.
C11_RenderingBestEffort ==
  out.saved # "" =>
    /\ out.kind = "returned"
    /\ (out.result.url = "") <=> (out.saved = "no")
    /\ out.final = (IF Truthy(out.ai) THEN Push(out.atRet, out.ai)
                    ELSE out.atRet)
    /\ out.result.state = TaskState(out.final)
    /\ out.result.move = (IF Truthy(out.ai) THEN san(out.atRet, out.ai)
                          ELSE Sentinel)
    /\ boards[out.ctx] = out.board => heap[out.board] = out.final

\* The image could not be written, and the turn returned the engine's move
\* with an empty image reference.
C11_Witness ==
  /\ out.saved = "no"
  /\ out.kind = "returned"
  /\ out.result.url = ""
  /\ out.result.move = "a3"
  /\ boards[out.ctx] = out.board

\* C12 (as stated): no step removes a stored session, cleanup included.
C12_SessionsNeverDestroyed ==
  [][\A c \in Contexts : boards[c] # Absent => boards'[c] # Absent]_vars

\* C12 (amended): only cleanup removes a stored session, and it removes all
\* of them; every step of process_messages keeps every stored session.
C12_OnlyCleanupDestroys ==
  [][(\E c \in Contexts : boards[c] # Absent /\ boards'[c] = Absent)
       => /\ \A c \in Contexts : boards'[c] = Absent
          /\ turns' = turns
          /\ out' = NoOutcome]_vars

\* A call has raised while both contexts have a stored session.
C12_Witness ==
  /\ out.kind = "raised"
  /\ \A c \in Contexts : boards[c] # Absent

\* A call on the context of the suspended call t is accepted in this step,
\* and the context still holds the board t stored.
SecondTurnAccepted(t) ==
  /\ InFlight(t)
  /\ boards[turns[t].ctx] = turns[t].board
  /\ out'.kind = "accepted"
  /\ out'.ctx = turns[t].ctx

\* C13 (as stated): a call accepted on the context of a suspended call has
\* read the position the suspended call read, and its store write replaces
\* the board that holds the suspended call's move.
C13_LostUpdate ==
  [][\A t \in Turns :
       SecondTurnAccepted(t)
         => /\ out'.pre = turns[t].pre
            /\ boards'[out'.ctx] # turns[t].board]_vars

\* C13 (amended): a call accepted on the context of a suspended call reads
\* the position that already holds the suspended call's move, pushes its own
\* move on the same Board object, and its store write changes nothing: the
\* stored position holds both moves.
C13_NoLostUpdate ==
  [][\A t \in Turns :
       SecondTurnAccepted(t)
         => /\ out'.pre = heap[turns[t].board]
            /\ out'.board = turns[t].board
            /\ boards' = boards
            /\ heap'[out'.board] = Push(heap[out'.board], out'.move)
            /\ heap'[boards'[out'.ctx]] = out'.handed]_vars

\* Two calls are suspended on one context, and its stored position holds
\* the moves of both.
C13_Witness ==
  /\ out.kind = "accepted"
  /\ \A t \in Turns :
       InFlight(t) /\ turns[t].ctx = out.ctx /\ turns[t].board = boards[out.ctx]
  /\ \E t \in Turns : turns[t].pre = InitialPosition
  /\ StoredPosition(out.ctx) = Push(Push(InitialPosition, TakeOne), TakeOne)

\* C14: a move the engine bridge returned is pushed on the position the
\* turn's own user move gave, and no two calls are suspended on one context
\* at once.
C14_TurnsAlternate ==
  /\ (out.kind = "returned" /\ Truthy(out.ai)) => out.atRet = out.handed
  /\ \A t1, t2 \in Turns :
       (t1 # t2 /\ InFlight(t1) /\ InFlight(t2))
         => turns[t1].ctx # turns[t2].ctx

\* C15: a step of a call on one context leaves the entry and the stored
\* position of every other context as they were, and an accepted call has
\* parsed its move in the stored position of its own context.
C15_ContextsIndependent ==
  [][/\ \A c \in Contexts :
          (\/ out'.kind # "none" /\ out'.ctx # c
           \/ \E t \in Turns : /\ turns'[t] # turns[t]
                                /\ turns[t].pc # "idle"
                                /\ turns[t].ctx # c)
            => /\ boards'[c] = boards[c]
               /\ StoredPosition(c)' = StoredPosition(c)
     /\ out'.kind = "accepted"
          => /\ out'.pre = StoredPosition(out'.ctx)
             /\ out'.handed = Push(out'.pre, out'.move)]_vars

\* A call on one context has returned with the engine's move while a call
\* on another context is suspended, its stored position still the one its
\* user's move gave.
C15_Witness ==
  /\ out.kind = "returned"
  /\ Truthy(out.ai)
  /\ \E t \in Turns :
       /\ InFlight(t)
       /\ turns[t].ctx # out.ctx
       /\ boards[turns[t].ctx] = turns[t].board
       /\ heap[turns[t].board] = turns[t].handed

\* C16: when a call of process_messages has ended, by a result or by an
\* exception, the engine process it started has exited.
C16_ProcessReaped ==
  out.kind \in {"returned", "raised"} => out.proc \in {"none", "exited"}

\* C17: what a call hands to communicate is the four commands in order, the
\* third carrying the position the call's own user move gave, and a move is
\* read from the output only of a process that was sent them.
C17_HandshakeOrder ==
  /\ \A t \in Turns :
       turns[t].pc = "communicating"
         => /\ turns[t].proc # "none"
            /\ turns[t].sent = Commands(turns[t].handed)
  /\ out.src \in {"output", "parse Exception"} => out.proc = "exited"

\* C18: a call that raises before its move is accepted leaves `boards` and
\* every board as they were; an accepted move is in the store before the
\* engine is consulted; and when the call is cancelled while it waits for
\* the engine, the stored board of its context holds the position its move
\* gave, no more and no less.
C18_CommitPoint ==
  [][/\ (out'.kind = "raised" /\ out'.err.at = "Validating")
          => boards' = boards /\ heap' = heap
     /\ out'.kind = "accepted"
          => heap'[boards'[out'.ctx]] = out'.handed
     /\ (out'.err.type = "CancelledError" /\ boards[out'.ctx] = out'.board)
          => /\ boards' = boards
             /\ heap'[out'.board] = out'.handed]_vars

\* C19: once the stored position of a context has no legal move, a call on
\* the context with a text part raises the IllegalMove error, and no step
\* but cleanup changes the stored position.
C19_TerminalAbsorbing ==
  [][\A c \in Contexts :
       (boards[c] # Absent /\ legal_moves(heap[boards[c]]) = <<>>)
         => /\ (out'.ctx = c /\ out'.input = "text")
                 => /\ out'.kind = "raised"
                    /\ ErrorKind(out'.err) = "IllegalMove"
            /\ boards'[c] # Absent => heap'[boards'[c]] = heap[boards[c]]]_vars
====
